---- MODULE Spec2Model ----
(***************************************************************************)
(* Itinerary allocation and budget fitting of TravelAIAgent:               *)
(* ItineraryPlannerAgent.run followed by BudgetOptimizerAgent.run, as      *)
(* TravelAgent.run calls them on already discovered flights and hotels.    *)
(* TravelPreferencesAgent.normalize, which TravelAgent.run calls first, is *)
(* specified on its own (SpecNormalize).                                   *)
(*                                                                         *)
(* Money.  Prices, fares and the budget are whole cents.  est_cost and the *)
(* per-day envelope are exact rationals: they are stored as integers in    *)
(* units of 1/Den(prefs) cent, where Den is the number of trip days (the   *)
(* only divisor that ever reaches a stored amount).  round(x, 2) rounds   *)
(* the exact value to the nearest cent; see RoundNearest for ties.         *)
(* Dates are day ordinals; date + timedelta(days=1) is +1.                 *)
(***************************************************************************)
EXTENDS Integers, Sequences, FiniteSets, TLC

VARIABLES
    raw,              \* the dict given to TravelPreferencesAgent.normalize, or None
    today,            \* date.today()
    prefs,            \* TravelPreferences handed to both agents
    flights,          \* discovered FlightOption list (flights_all)
    hotels,           \* discovered HotelOption list (hotels_all)
    travel_guides,    \* dict destination -> TravelGuideInfo
    local_results,    \* what AttractionsClient.top_attractions returns
    flight_prefs,     \* the airport-code copy of prefs, None until derived
    pc,               \* position in the pipeline
    ordered_cities,   \* planner: _build_city_route result
    days_per_city,    \* planner: _allocate_days result
    activity_budget_per_day, \* planner: envelope, in units
    city_pos,         \* planner loop: index into ordered_cities
    day_idx,          \* planner loop: day index inside the city
    current_date,     \* planner loop
    prev_city,        \* planner loop
    itinerary_days,   \* planner loop: days assembled so far
    itinerary,        \* the Itinerary returned by the planner
    chosen_flights,   \* optimizer
    chosen_hotels,    \* optimizer: dict city label -> HotelOption
    budget,           \* optimizer: BudgetBreakdown
    day_scales,       \* history: factors multiplied in by _fit_to_budget
    global_scales,    \* history: factors multiplied in by the optimizer
    draft,            \* history: itinerary.days as the planner returned them
    cost_writes       \* history: per day and activity, the passes that wrote est_cost

vars == <<raw, today, prefs, flights, hotels, travel_guides, local_results, flight_prefs,
          pc, ordered_cities, days_per_city, activity_budget_per_day, city_pos,
          day_idx, current_date, prev_city, itinerary_days, itinerary,
          chosen_flights, chosen_hotels, budget, day_scales, global_scales,
          draft, cost_writes>>

----------------------------------------------------------------------------
(* Bounds of the explored inputs *)

MaxDays == 3

MaxFlights == 2

MaxHotels == 2

MaxAttractions == 4

MaxLongTrip == 7

MaxFlightResults == 3

MaxEnvelopeDays == 4

MaxRouteFlights == 3

MaxRawDays == 2

MaxPool == 7

MaxStay == 4

----------------------------------------------------------------------------
(* Generic helpers *)

Max(a, b) == IF a >= b THEN a ELSE b

Min(a, b) == IF a <= b THEN a ELSE b

RECURSIVE SumSeq(_)
SumSeq(s) == IF s = <<>> THEN 0 ELSE Head(s) + SumSeq(Tail(s))

Range(s) == {s[i] : i \in 1..Len(s)}

\* Python's sorted(): the stable ascending order of the indices 1..n under
\* the strict order Less.
StableOrder(n, Less(_, _)) ==
    LET Rank(i) == 1 + Cardinality({j \in 1..n :
                        Less(j, i) \/ (~Less(i, j) /\ j < i)})
    IN  [k \in 1..n |-> CHOOSE i \in 1..n : Rank(i) = k]

\* The non-negative rational num/den rounded to the nearest integer.  An
\* exact half is a decimal tie; the binary float that stands for it lies on
\* either side of it, so round() can go either way: up tells which.
RoundNearest(num, den, up) ==
    LET q == num \div den
        r == num % den
    IN  IF 2 * r < den THEN q
        ELSE IF 2 * r > den THEN q + 1
        ELSE IF up THEN q + 1 ELSE q

----------------------------------------------------------------------------
(* utils/airport_codes.py, the entries the explored trips use *)

CITY_TO_AIRPORT ==
    [c \in {"Baku", "Istanbul", "Ankara", "Tbilisi"} |->
        CASE c = "Baku" -> "GYD"
          [] c = "Istanbul" -> "IST"
          [] c = "Ankara" -> "ESB"
          [] c = "Tbilisi" -> "TBS"]

airport_to_city ==
    [a \in {CITY_TO_AIRPORT[c] : c \in DOMAIN CITY_TO_AIRPORT} |->
        CHOOSE c \in DOMAIN CITY_TO_AIRPORT : CITY_TO_AIRPORT[c] = a]

label_city(value) ==
    IF value \in DOMAIN airport_to_city THEN airport_to_city[value] ELSE value

IATA_ALIASES == [a \in {"BAK"} |-> "GYD"]

\* The labels the explored trips use, with what Python's string methods make
\* of them: stripped is value.strip(), titled is stripped.title(), code_form
\* is len(stripped) == 3 and stripped.isupper()
Labels ==
    << [text |-> "Baku", stripped |-> "Baku", titled |-> "Baku", code_form |-> FALSE],
       [text |-> "Istanbul", stripped |-> "Istanbul", titled |-> "Istanbul", code_form |-> FALSE],
       [text |-> "Ankara", stripped |-> "Ankara", titled |-> "Ankara", code_form |-> FALSE],
       [text |-> "Tbilisi", stripped |-> "Tbilisi", titled |-> "Tbilisi", code_form |-> FALSE],
       [text |-> "GYD", stripped |-> "GYD", titled |-> "Gyd", code_form |-> TRUE],
       [text |-> "IST", stripped |-> "IST", titled |-> "Ist", code_form |-> TRUE],
       [text |-> "ESB", stripped |-> "ESB", titled |-> "Esb", code_form |-> TRUE],
       [text |-> "TBS", stripped |-> "TBS", titled |-> "Tbs", code_form |-> TRUE],
       [text |-> "BAK", stripped |-> "BAK", titled |-> "Bak", code_form |-> TRUE],
       [text |-> "XQZ", stripped |-> "XQZ", titled |-> "Xqz", code_form |-> TRUE],
       [text |-> "istanbul", stripped |-> "istanbul", titled |-> "Istanbul", code_form |-> FALSE],
       [text |-> " Tbilisi ", stripped |-> "Tbilisi", titled |-> "Tbilisi", code_form |-> FALSE],
       [text |-> "Atlantis", stripped |-> "Atlantis", titled |-> "Atlantis", code_form |-> FALSE],
       [text |-> "", stripped |-> "", titled |-> "", code_form |-> FALSE] >>

LabelOf(value) == Labels[CHOOSE k \in 1..Len(Labels) : Labels[k].text = value]

----------------------------------------------------------------------------
(* Amounts *)

\* number of (1/Den) cent units in one cent: the trip's day count
Den(p) == Max(1, p.num_days)

Units(p, cents) == cents * Den(p)

\* round(x, 2) of x = num/den units, returned in units
Round2(p, num, den, up) == RoundNearest(num, den * Den(p), up) * Den(p)

\* x = num/den units is an exact half cent
HalfCent(p, num, den) == 2 * (num % (den * Den(p))) = den * Den(p)

RECURSIVE SumOver(_, _)
\* sum of f[x] over the keys x in S
SumOver(S, f) ==
    IF S = {} THEN 0
    ELSE LET x == CHOOSE y \in S : TRUE IN f[x] + SumOver(S \ {x}, f)

\* Optional values are sequences of length 0 (None) or 1
None == <<>>

Some(v) == <<v>>

----------------------------------------------------------------------------
(* agents/itinerary_planner_agent.py *)

RECURSIVE collect_cities(_, _, _)
\* the two loops of _build_city_route: append each label that is neither the
\* origin nor already in the route
collect_cities(route, labels, origin_label) ==
    IF labels = <<>> THEN route
    ELSE LET city == Head(labels)
         IN  collect_cities(
                 IF city = origin_label \/ city \in Range(route)
                     THEN route ELSE Append(route, city),
                 Tail(labels), origin_label)

\* _build_city_route walking the flights in discovery order (no sort)
build_city_route_unsorted(p, fl) ==
    LET origin_label == label_city(p.origin_city)
        by_flight == [k \in 1..Len(fl) |-> label_city(fl[k].destination)]
        declared == [k \in 1..Len(p.destinations) |-> label_city(p.destinations[k])]
        route == collect_cities(collect_cities(<<>>, by_flight, origin_label),
                                declared, origin_label)
        filtered == SelectSeq(route, LAMBDA c : c # origin_label)
    IN  IF filtered # <<>> THEN filtered
        ELSE SelectSeq(declared, LAMBDA c : c # origin_label)

\* _build_city_route without the loop of lines 140-145: the declared
\* destinations are used only when the flights yield no city
build_city_route_flights_only(p, fl) ==
    LET origin_label == label_city(p.origin_city)
        order == StableOrder(Len(fl),
                     LAMBDA i, j : fl[i].depart_date < fl[j].depart_date)
        by_flight == [k \in 1..Len(fl) |-> label_city(fl[order[k]].destination)]
        declared == [k \in 1..Len(p.destinations) |-> label_city(p.destinations[k])]
        route == collect_cities(<<>>, by_flight, origin_label)
        filtered == SelectSeq(route, LAMBDA c : c # origin_label)
    IN  IF filtered # <<>> THEN filtered
        ELSE SelectSeq(declared, LAMBDA c : c # origin_label)

build_city_route(p, fl) ==
    LET origin_label == label_city(p.origin_city)
        order == StableOrder(Len(fl),
                     LAMBDA i, j : fl[i].depart_date < fl[j].depart_date)
        by_flight == [k \in 1..Len(fl) |-> label_city(fl[order[k]].destination)]
        declared == [k \in 1..Len(p.destinations) |-> label_city(p.destinations[k])]
        route == collect_cities(collect_cities(<<>>, by_flight, origin_label),
                                declared, origin_label)
        filtered == SelectSeq(route, LAMBDA c : c # origin_label)
    IN  IF filtered # <<>> THEN filtered
        ELSE SelectSeq(declared, LAMBDA c : c # origin_label)

\* _allocate_days giving the extra day to one city too many
allocate_days_extra_day(total_days, cities) ==
    LET td == Max(1, total_days)
        base == td \div Len(cities)
        remainder == td % Len(cities)
        last(c) == CHOOSE i \in 1..Len(cities) :
                      /\ cities[i] = c
                      /\ \A j \in 1..Len(cities) : cities[j] = c => j <= i
    IN  [c \in Range(cities) |-> base + (IF last(c) - 1 <= remainder THEN 1 ELSE 0)]

\* _allocate_days for a non-empty city list: a dict, so a city listed twice
\* keeps the value written last
allocate_days(total_days, cities) ==
    LET td == Max(1, total_days)
        base == td \div Len(cities)
        remainder == td % Len(cities)
        last(c) == CHOOSE i \in 1..Len(cities) :
                      /\ cities[i] = c
                      /\ \A j \in 1..Len(cities) : cities[j] = c => j <= i
    IN  [c \in Range(cities) |-> base + (IF last(c) - 1 < remainder THEN 1 ELSE 0)]

\* indices of the hotels located in the city
city_hotels(city, ho) ==
    {i \in 1..Len(ho) : label_city(ho[i].location) = label_city(city)}

\* min(..., key=lambda h: h.price): the first hotel among S with the least price
min_price_hotel(S, ho) ==
    CHOOSE i \in S : \A j \in S :
        ho[i].price < ho[j].price \/ (ho[i].price = ho[j].price /\ i <= j)

cheapest_hotel_price(city, ho) ==
    IF city_hotels(city, ho) = {} THEN 0
    ELSE ho[min_price_hotel(city_hotels(city, ho), ho)].price

choose_hotel_name(city, ho) ==
    IF city_hotels(city, ho) = {} THEN ""
    ELSE ho[min_price_hotel(city_hotels(city, ho), ho)].name

\* _estimate_activity_budget taking the first discovered flight for the
\* cheapest one
estimate_activity_budget_first_flight(p, fl, ho, dpc) ==
    LET cheapest_flight == IF fl = <<>> THEN 0 ELSE fl[1].price
        floor_of == [c \in DOMAIN dpc |->
                        cheapest_hotel_price(c, ho) * Max(1, dpc[c])]
        hotel_floor == SumOver(DOMAIN dpc, floor_of)
        remaining == p.total_budget - cheapest_flight - hotel_floor
        total_days == IF SumOver(DOMAIN dpc, dpc) = 0 THEN 1
                      ELSE SumOver(DOMAIN dpc, dpc)
    IN  IF remaining <= 0 THEN 0
        ELSE Units(p, remaining) \div total_days

\* _estimate_activity_budget, in units.  sum(days_per_city.values()) is the
\* trip's day count Den(p) because the route never repeats a city, so the
\* division is exact.
estimate_activity_budget(p, fl, ho, dpc) ==
    LET cheapest_flight ==
            IF fl = <<>> THEN 0
            ELSE CHOOSE x \in {fl[i].price : i \in 1..Len(fl)} :
                     \A i \in 1..Len(fl) : x <= fl[i].price
        floor_of == [c \in DOMAIN dpc |->
                        cheapest_hotel_price(c, ho) * Max(1, dpc[c])]
        hotel_floor == SumOver(DOMAIN dpc, floor_of)
        remaining == p.total_budget - cheapest_flight - hotel_floor
        total_days == IF SumOver(DOMAIN dpc, dpc) = 0 THEN 1
                      ELSE SumOver(DOMAIN dpc, dpc)
    IN  IF remaining <= 0 THEN 0
        ELSE Units(p, remaining) \div total_days

\* _find_leg: the first discovered flight between the two labels, or None
find_leg(origin, destination, fl) ==
    LET hits == {i \in 1..Len(fl) :
                    /\ label_city(fl[i].destination) = label_city(destination)
                    /\ label_city(fl[i].origin) = label_city(origin)}
    IN  IF hits = {} THEN None
        ELSE Some(fl[CHOOSE i \in hits : \A j \in hits : i <= j])

\* _local_transport_cost, in units
local_transport_cost(p, budget_per_day, guide) ==
    IF guide = None \/ Head(guide).transit_fare = None THEN 0
    ELSE IF budget_per_day <= 0 THEN 0
    ELSE Min(Units(p, Head(Head(guide).transit_fare)), budget_per_day)

ground_transfer_cost(budget_per_day) == 0

intercity_transport_cost(budget_per_day) == 0

\* the slot table of _activities_for_city; shares in percent
Slots ==
    << [label |-> "Morning", share |-> 32],
       [label |-> "Afternoon", share |-> 28],
       [label |-> "Evening", share |-> 22],
       [label |-> "Late", share |-> 18] >>

Activity(name, item, est_cost) ==
    [name |-> name, item |-> item, est_cost |-> est_cost]

\* _activities_for_city with the window of day n starting at item n instead of
\* item 3n.  guide is travel_guides.get(city); served is what
\* AttractionsClient.top_attractions returns before its own [:limit].
activities_for_city_rotating_by_one(p, city, budget_per_day, day_offset, days_in_city, guide, served, ups) ==
    LET pool_size == Min(30, Max(6, days_in_city * 3))
        from_guide == IF guide # None /\ Head(guide).attractions # <<>>
                      THEN SubSeq(Head(guide).attractions, 1,
                                  Min(pool_size, Len(Head(guide).attractions)))
                      ELSE <<>>
        attractions == IF from_guide # <<>> THEN from_guide
                       ELSE SubSeq(served, 1, Min(pool_size, Len(served)))
        n == Len(attractions)
        start == day_offset % n
        selected == [i \in 1..3 |-> attractions[((start + i - 1) % n) + 1]]
        slots == SubSeq(Slots, 1, Min(Len(Slots), Len(selected)))
        transport_cost == local_transport_cost(p, budget_per_day, guide)
        getting_around == IF transport_cost > 0
                          THEN <<Activity("Getting around", "", transport_cost)>>
                          ELSE <<>>
        slot_acts == [k \in 1..Len(slots) |->
                        Activity(slots[k].label,
                                 selected[((k - 1) % Len(selected)) + 1],
                                 Round2(p, Max(0, budget_per_day * slots[k].share), 100,
                                        k \in ups))]
    IN  IF n = 0 THEN <<>> ELSE getting_around \o slot_acts

\* _activities_for_city.  guide is travel_guides.get(city); served is what
\* AttractionsClient.top_attractions returns before its own [:limit].
activities_for_city(p, city, budget_per_day, day_offset, days_in_city, guide, served, ups) ==
    LET pool_size == Min(30, Max(6, days_in_city * 3))
        from_guide == IF guide # None /\ Head(guide).attractions # <<>>
                      THEN SubSeq(Head(guide).attractions, 1,
                                  Min(pool_size, Len(Head(guide).attractions)))
                      ELSE <<>>
        attractions == IF from_guide # <<>> THEN from_guide
                       ELSE SubSeq(served, 1, Min(pool_size, Len(served)))
        n == Len(attractions)
        start == (day_offset * 3) % n
        selected == [i \in 1..3 |-> attractions[((start + i - 1) % n) + 1]]
        slots == SubSeq(Slots, 1, Min(Len(Slots), Len(selected)))
        transport_cost == local_transport_cost(p, budget_per_day, guide)
        getting_around == IF transport_cost > 0
                          THEN <<Activity("Getting around", "", transport_cost)>>
                          ELSE <<>>
        slot_acts == [k \in 1..Len(slots) |->
                        Activity(slots[k].label,
                                 selected[((k - 1) % Len(selected)) + 1],
                                 Round2(p, Max(0, budget_per_day * slots[k].share), 100,
                                        k \in ups))]
    IN  IF n = 0 THEN <<>> ELSE getting_around \o slot_acts

\* the slots whose share of the envelope is an exact half cent
slot_ties(p, budget_per_day) ==
    {k \in 1..Len(Slots) : HalfCent(p, Max(0, budget_per_day * Slots[k].share), 100)}

\* the factor _fit_to_budget multiplies in, as <<numerator, denominator>>,
\* or None when it returns early
fit_scale(activities, budget_per_day) ==
    LET paid == SelectSeq(activities, LAMBDA a : a.est_cost > 0)
        total == SumSeq([i \in 1..Len(paid) |-> paid[i].est_cost])
    IN  IF total <= Max(budget_per_day, 0) \/ total = 0 THEN None
        ELSE Some(<<budget_per_day, total>>)

\* the activities whose fitted cost is an exact half cent
fit_ties(p, activities, budget_per_day) ==
    LET scale == fit_scale(activities, budget_per_day)
    IN  IF scale = None THEN {}
        ELSE {i \in 1..Len(activities) :
                 /\ activities[i].est_cost > 0
                 /\ HalfCent(p, activities[i].est_cost * Head(scale)[1], Head(scale)[2])}

\* per activity, <<"fit">> when _fit_to_budget assigns its est_cost (the
\* rescaling of line 293 or the floor clamp of line 297), else <<>>
fit_writes(p, activities, budget_per_day) ==
    [i \in 1..Len(activities) |->
        IF /\ fit_scale(activities, budget_per_day) # None
           /\ \/ activities[i].est_cost > 0
              \/ (budget_per_day < Units(p, 500) /\ i = Len(activities))
        THEN <<"fit">> ELSE <<>>]

\* _fit_to_budget
fit_to_budget(p, activities, budget_per_day, ups) ==
    LET scale == fit_scale(activities, budget_per_day)
        scaled == [i \in 1..Len(activities) |->
                     IF activities[i].est_cost > 0
                     THEN [activities[i] EXCEPT !.est_cost =
                              Round2(p, @ * Head(scale)[1], Head(scale)[2], i \in ups)]
                     ELSE activities[i]]
    IN  IF scale = None THEN activities
        ELSE IF budget_per_day < Units(p, 500) /\ activities # <<>>
        THEN [scaled EXCEPT ![Len(scaled)].est_cost = 0]
        ELSE scaled

----------------------------------------------------------------------------
(* agents/budget_optimizer_agent.py *)

\* The departure-time texts the explored flights carry, in the order Python
\* compares the strings.  parsed is _parse_departure_time's result as a
\* position on the time line: a time without a date is put in year 2100,
\* None stands for "no format matched" (or an empty text).
DepartureTexts ==
    << [text |-> "", parsed |-> None],
       [text |-> "07:30", parsed |-> Some(2)],
       [text |-> "2026-03-05 07:30", parsed |-> Some(1)],
       [text |-> "2100-01-01 07:30", parsed |-> Some(2)],
       [text |-> "Unknown", parsed |-> None] >>

TextRank(text) == CHOOSE k \in 1..Len(DepartureTexts) : DepartureTexts[k].text = text

parse_departure_time(value) == DepartureTexts[TextRank(value)].parsed

\* datetime.max on the same time line
DatetimeMax == 1 + Len(DepartureTexts)

\* _flight_sort_key as a strict order: (price, dep or datetime.max, text)
flight_key_less(f, g) ==
    LET dep(x) == IF parse_departure_time(x.departure_time) = None
                  THEN DatetimeMax
                  ELSE Head(parse_departure_time(x.departure_time))
    IN  \/ f.price < g.price
        \/ /\ f.price = g.price
           /\ \/ dep(f) < dep(g)
              \/ /\ dep(f) = dep(g)
                 /\ TextRank(f.departure_time) < TextRank(g.departure_time)

\* sorted(flights, key=self._flight_sort_key), as indices into flights
flights_sorted(fl) ==
    LET order == StableOrder(Len(fl), LAMBDA i, j : flight_key_less(fl[i], fl[j]))
    IN  [k \in 1..Len(fl) |-> order[k]]

\* _nights_per_city
nights_per_city(days) ==
    [c \in {days[i].city : i \in 1..Len(days)} |->
        Cardinality({i \in 1..Len(days) : days[i].city = c})]

leg_order(p, itin) ==
    LET origin_label == label_city(p.origin_city)
        stops == <<origin_label>> \o itin.destinations \o <<origin_label>>
    IN  [k \in 1..(Len(stops) - 1) |-> <<stops[k], stops[k + 1]>>]

RECURSIVE flights_by_leg_last_tie(_, _, _)
\* flights_by_leg replacing the kept flight on an equal key as well
flights_by_leg_last_tie(fl, order, acc) ==
    IF order = <<>> THEN acc
    ELSE LET f == Head(order)
             key == <<label_city(fl[f].origin), label_city(fl[f].destination)>>
             take == key \notin DOMAIN acc \/ ~flight_key_less(fl[acc[key]], fl[f])
         IN  flights_by_leg_last_tie(fl, Tail(order),
                 IF take
                 THEN [k \in DOMAIN acc \cup {key} |-> IF k = key THEN f ELSE acc[k]]
                 ELSE acc)

RECURSIVE flights_by_leg(_, _, _)
\* the loop filling flights_by_leg: order is the list still to visit, acc
\* the dict so far (leg -> index into flights)
flights_by_leg(fl, order, acc) ==
    IF order = <<>> THEN acc
    ELSE LET f == Head(order)
             key == <<label_city(fl[f].origin), label_city(fl[f].destination)>>
             take == key \notin DOMAIN acc \/ flight_key_less(fl[f], fl[acc[key]])
         IN  flights_by_leg(fl, Tail(order),
                 IF take
                 THEN [k \in DOMAIN acc \cup {key} |-> IF k = key THEN f ELSE acc[k]]
                 ELSE acc)

\* flight selection without the `flights_sorted[:1]` fallback
select_flights_no_fallback(p, fl, itin) ==
    LET sorted == flights_sorted(fl)
        by_leg == flights_by_leg(fl, sorted, <<>>)
        legs == leg_order(p, itin)
        hit == SelectSeq(legs, LAMBDA leg : leg \in DOMAIN by_leg)
        in_budget == {k \in 1..Len(sorted) :
                         fl[sorted[k]].price * 100 <= p.total_budget * 45}
    IN  IF Len(p.destinations) > 1
        THEN [k \in 1..Len(hit) |-> by_leg[hit[k]]]
        ELSE IF in_budget # {}
        THEN <<sorted[CHOOSE k \in in_budget : \A m \in in_budget : k <= m]>>
        ELSE <<>>

\* flight selection taking, for one destination, the first discovered flight
\* within the threshold
select_flights_first_discovered(p, fl, itin) ==
    LET sorted == flights_sorted(fl)
        by_leg == flights_by_leg(fl, sorted, <<>>)
        legs == leg_order(p, itin)
        hit == SelectSeq(legs, LAMBDA leg : leg \in DOMAIN by_leg)
        in_budget == {i \in 1..Len(fl) : fl[i].price * 100 <= p.total_budget * 45}
    IN  IF Len(p.destinations) > 1
        THEN [k \in 1..Len(hit) |-> by_leg[hit[k]]]
        ELSE IF in_budget # {}
        THEN <<CHOOSE i \in in_budget : \A m \in in_budget : i <= m>>
        ELSE SubSeq(sorted, 1, Min(1, Len(sorted)))

\* flight selection of BudgetOptimizerAgent.run, as indices into flights
select_flights(p, fl, itin) ==
    LET sorted == flights_sorted(fl)
        by_leg == flights_by_leg(fl, sorted, <<>>)
        legs == leg_order(p, itin)
        hit == SelectSeq(legs, LAMBDA leg : leg \in DOMAIN by_leg)
        in_budget == {k \in 1..Len(sorted) :
                         fl[sorted[k]].price * 100 <= p.total_budget * 45}
    IN  IF Len(p.destinations) > 1
        THEN [k \in 1..Len(hit) |-> by_leg[hit[k]]]
        ELSE IF in_budget # {}
        THEN <<sorted[CHOOSE k \in in_budget : \A m \in in_budget : k <= m]>>
        ELSE SubSeq(sorted, 1, Min(1, Len(sorted)))

flight_cost_of(fl, chosen) == SumSeq([k \in 1..Len(chosen) |-> fl[chosen[k]].price])

\* hotel_budget_per_city.get(city_label, hotel_budget) as the rational
\* <<numerator, denominator>> in cents
city_share(p, nights, hotel_budget, city_label) ==
    LET total_nights == IF SumOver(DOMAIN nights, nights) = 0
                        THEN Max(1, p.num_days)
                        ELSE SumOver(DOMAIN nights, nights)
        declared == {label_city(p.destinations[k]) : k \in 1..Len(p.destinations)}
    IN  IF DOMAIN nights # {}
        THEN IF city_label \in DOMAIN nights
             THEN <<hotel_budget * nights[city_label], total_nights>>
             ELSE <<hotel_budget, 1>>
        ELSE IF city_label \in declared
             THEN <<hotel_budget, Max(1, Len(p.destinations))>>
             ELSE <<hotel_budget, 1>>

nights_in(nights, city_label) ==
    IF city_label \in DOMAIN nights THEN nights[city_label] ELSE 0

\* hotel selection without the over-budget fallback
select_hotels_no_fallback(p, ho, nights, flight_cost) ==
    LET hotel_budget == Max(0, p.total_budget - flight_cost)
        declared == {label_city(p.destinations[k]) : k \in 1..Len(p.destinations)}
        candidates(c) ==
            {i \in city_hotels(c, ho) :
                LET share == city_share(p, nights, hotel_budget, c)
                IN  ho[i].price * Max(1, nights_in(nights, c)) * share[2] <= share[1]}
    IN  [c \in {d \in declared : candidates(d) # {}} |->
            min_price_hotel(candidates(c), ho)]

\* hotel selection taking the first discovered hotel of the city when none
\* fits the share
select_hotels_first_on_fallback(p, ho, nights, flight_cost) ==
    LET hotel_budget == Max(0, p.total_budget - flight_cost)
        declared == {label_city(p.destinations[k]) : k \in 1..Len(p.destinations)}
        candidates(c) ==
            {i \in city_hotels(c, ho) :
                LET share == city_share(p, nights, hotel_budget, c)
                IN  ho[i].price * Max(1, nights_in(nights, c)) * share[2] <= share[1]}
    IN  [c \in {d \in declared : city_hotels(d, ho) # {}} |->
            IF candidates(c) # {} THEN min_price_hotel(candidates(c), ho)
            ELSE CHOOSE i \in city_hotels(c, ho) : \A j \in city_hotels(c, ho) : i <= j]

\* hotel selection of BudgetOptimizerAgent.run: dict label -> index into hotels
select_hotels(p, ho, nights, flight_cost) ==
    LET hotel_budget == Max(0, p.total_budget - flight_cost)
        declared == {label_city(p.destinations[k]) : k \in 1..Len(p.destinations)}
        candidates(c) ==
            {i \in city_hotels(c, ho) :
                LET share == city_share(p, nights, hotel_budget, c)
                IN  ho[i].price * Max(1, nights_in(nights, c)) * share[2] <= share[1]}
    IN  [c \in {d \in declared : city_hotels(d, ho) # {}} |->
            IF candidates(c) # {} THEN min_price_hotel(candidates(c), ho)
            ELSE min_price_hotel(city_hotels(c, ho), ho)]

hotel_cost_of(ho, nights, chosen) ==
    SumOver(DOMAIN chosen,
            [c \in DOMAIN chosen |-> ho[chosen[c]].price * Max(1, nights_in(nights, c))])

\* sum of est_cost over all activities of all days, in units
activities_cost_of(days) ==
    SumSeq([d \in 1..Len(days) |->
              SumSeq([a \in 1..Len(days[d].activities) |-> days[d].activities[a].est_cost])])

\* the reconciliation factor without the clamps and without the over-budget
\* test
global_scale_unclamped(p, flight_cost, hotel_cost, activities_cost) ==
    LET allowed == Units(p, p.total_budget - flight_cost - hotel_cost)
    IN  IF activities_cost > 0 THEN Some(<<allowed, activities_cost>>) ELSE None

\* the reconciliation factor without the max(0.0, ...) of lines 109 and 110
global_scale_no_floor(p, flight_cost, hotel_cost, activities_cost) ==
    LET total_spend == Units(p, flight_cost + hotel_cost) + activities_cost
        allowed == Units(p, p.total_budget - flight_cost - hotel_cost)
        scale == IF allowed >= activities_cost THEN <<1, 1>>
                 ELSE <<allowed, activities_cost>>
    IN  IF total_spend > Units(p, p.total_budget) /\ activities_cost > 0
        THEN IF scale[1] < scale[2] THEN Some(scale) ELSE None
        ELSE None

\* lines 107-111: the factor the reconciliation multiplies in, as
\* <<numerator, denominator>>, or None when nothing is rescaled
global_scale(p, flight_cost, hotel_cost, activities_cost) ==
    LET total_spend == Units(p, flight_cost + hotel_cost) + activities_cost
        allowed == Max(0, Units(p, p.total_budget - flight_cost - hotel_cost))
        scale == IF allowed >= activities_cost THEN <<1, 1>>
                 ELSE <<allowed, activities_cost>>
    IN  IF total_spend > Units(p, p.total_budget) /\ activities_cost > 0
        THEN IF scale[1] < scale[2] THEN Some(scale) ELSE None
        ELSE None

\* _scale_activity_costs leaving the last activity of each day as it was
scale_activity_costs_but_last(p, days, scale, ups) ==
    LET scaled(d, acts) ==
            [a \in 1..Len(acts) |->
                IF a = Len(acts) THEN acts[a]
                ELSE [acts[a] EXCEPT !.est_cost =
                         Round2(p, acts[a].est_cost * scale[1], scale[2],
                                <<d, a>> \in ups)]]
    IN  [d \in 1..Len(days) |->
            [days[d] EXCEPT !.activities = scaled(d, days[d].activities)]]

\* _scale_activity_costs
scale_activity_costs(p, days, scale, ups) ==
    LET scaled(d, acts) ==
            [a \in 1..Len(acts) |->
                [acts[a] EXCEPT !.est_cost =
                    Round2(p, acts[a].est_cost * scale[1], scale[2],
                           <<d, a>> \in ups)]]
    IN  [d \in 1..Len(days) |->
            [days[d] EXCEPT !.activities = scaled(d, days[d].activities)]]

\* the <<day, activity>> positions whose rescaled cost is an exact half cent
scale_ties(p, days, scale) ==
    {da \in UNION {{<<d, a>> : a \in 1..Len(days[d].activities)} : d \in 1..Len(days)} :
        HalfCent(p, days[da[1]].activities[da[2]].est_cost * scale[1], scale[2])}

----------------------------------------------------------------------------
(* utils: a calendar of a few days a year, enough for date.replace(year=) *)

\* the days of a year, in order; "02-29" exists in leap years only
MonthDays == <<"01-05", "02-29", "07-01", "12-31">>

LeapDay == CHOOSE k \in 1..Len(MonthDays) : MonthDays[k] = "02-29"

\* years are counted from 2000
IsLeap(year) == year % 4 = 0

\* number of days before the first day of the year
DaysBefore(year) == year * (Len(MonthDays) - 1) + (year + 3) \div 4

\* date(year, month, day) as a day ordinal, k the index of the month-day
Ordinal(year, k) ==
    DaysBefore(year) + k - (IF ~IsLeap(year) /\ k > LeapDay THEN 1 ELSE 0)

YearOf(d) == CHOOSE y \in 0..d : DaysBefore(y) < d /\ d <= DaysBefore(y + 1)

MonthDayOf(d) ==
    LET k == d - DaysBefore(YearOf(d))
    IN  IF ~IsLeap(YearOf(d)) /\ k >= LeapDay THEN k + 1 ELSE k

\* d.replace(year=year), or None when it raises ValueError (29 February in a
\* year that is not a leap year)
replace_year(d, year) ==
    IF MonthDayOf(d) = LeapDay /\ ~IsLeap(year) THEN None
    ELSE Some(Ordinal(year, MonthDayOf(d)))

----------------------------------------------------------------------------
(* agents/travel_preferences_agent.py *)

\* a dict value that is an int, and one that is a str
IntValue(n) == [int |-> Some(n), text |-> None]

TextValue(t) == [int |-> None, text |-> Some(t)]

\* int(text) for the texts the explored dicts use, None when it raises
\* ValueError
int_of_text ==
    [t \in {"4", "not_a_number", ""} |->
        CASE t = "4" -> Some(4)
          [] t = "not_a_number" -> None
          [] t = "" -> None]

\* int(d.get(key) or 0) of line 76: a missing key, 0 and "" are falsy; None
\* when int() raises
int_or_zero(v) ==
    IF v = None THEN Some(0)
    ELSE IF Head(v).int # None THEN Some(Head(Head(v).int))
    ELSE IF Head(Head(v).text) = "" THEN Some(0)
    ELSE int_of_text[Head(Head(v).text)]

\* _from_dict: the TravelPreferences built from a dict whose absent keys are
\* None, or None when it raises ValueError
from_dict(d) ==
    IF int_or_zero(d.num_days) = None THEN None
    ELSE Some([origin_city |-> IF d.origin_city = None THEN ""
                              ELSE LabelOf(Head(d.origin_city)).stripped,
               destinations |-> IF d.destinations = None THEN <<>>
                                ELSE Head(d.destinations),
               num_days |-> Head(int_or_zero(d.num_days)),
               num_locations |-> IF d.num_locations = None THEN 0
                                 ELSE Head(d.num_locations),
               total_budget |-> IF d.total_budget = None THEN 0
                                ELSE Head(d.total_budget),
               start_date |-> d.start_date,
               end_date |-> d.end_date])

\* lines 44-57: a start date before today moves to the same day of this
\* year, else of next year, else to ten days from today
bumped_start(start, day) ==
    LET this_year == replace_year(start, YearOf(day))
        next_year == replace_year(start, YearOf(day) + 1)
        bumped == IF this_year # None /\ Head(this_year) >= day THEN this_year
                  ELSE next_year
    IN  IF bumped # None THEN Head(bumped) ELSE day + 10

\* normalize with the end date left as it was given
normalize_keeping_end_date(p, day) ==
    LET num_days == IF p.num_days = 0 THEN 3 ELSE p.num_days
        destinations == IF p.destinations = <<>> THEN <<"IST">> ELSE p.destinations
        clamped == Max(0, p.total_budget)
        given == IF p.start_date = None THEN day + 10 ELSE Head(p.start_date)
        start == IF given < day THEN bumped_start(given, day) ELSE given
    IN  [origin_city |-> IF p.origin_city = "" THEN "GYD" ELSE p.origin_city,
         destinations |-> destinations,
         num_days |-> num_days,
         num_locations |-> IF p.num_locations = 0 THEN Max(1, Len(destinations))
                           ELSE p.num_locations,
         total_budget |-> IF clamped <= 0 THEN 50000 ELSE clamped,
         start_date |-> Some(start),
         end_date |-> IF p.end_date = None THEN Some(start + num_days)
                      ELSE p.end_date]

\* normalize, lines 25-64, on a TravelPreferences p with date.today() = day
normalize(p, day) ==
    LET num_days == IF p.num_days = 0 THEN 3 ELSE p.num_days
        destinations == IF p.destinations = <<>> THEN <<"IST">> ELSE p.destinations
        clamped == Max(0, p.total_budget)
        given == IF p.start_date = None THEN day + 10 ELSE Head(p.start_date)
        start == IF given < day THEN bumped_start(given, day) ELSE given
    IN  [origin_city |-> IF p.origin_city = "" THEN "GYD" ELSE p.origin_city,
         destinations |-> destinations,
         num_days |-> num_days,
         num_locations |-> IF p.num_locations = 0 THEN Max(1, Len(destinations))
                           ELSE p.num_locations,
         total_budget |-> IF clamped <= 0 THEN 50000 ELSE clamped,
         start_date |-> Some(start),
         end_date |-> IF p.end_date = None \/ Head(p.end_date) <= start
                      THEN Some(start + num_days)
                      ELSE p.end_date]

----------------------------------------------------------------------------
(* What the collaborators hand to the two agents (agents/travel_agent.py) *)

\* utils/airport_codes.py to_airport_code: the code, or None when it raises
\* ValueError
to_airport_code(value) ==
    LET v == LabelOf(value).stripped
    IN  IF LabelOf(v).code_form
        THEN Some(IF v \in DOMAIN IATA_ALIASES THEN IATA_ALIASES[v] ELSE v)
        ELSE IF v \in DOMAIN CITY_TO_AIRPORT THEN Some(CITY_TO_AIRPORT[v])
        ELSE IF LabelOf(v).titled \in DOMAIN CITY_TO_AIRPORT
        THEN Some(CITY_TO_AIRPORT[LabelOf(v).titled])
        ELSE None

\* the flight_prefs of TravelAgent.run: prefs with origin and destinations
\* replaced by airport codes, or None when a label does not resolve
flight_prefs_of(p) ==
    IF \/ to_airport_code(p.origin_city) = None
       \/ \E k \in 1..Len(p.destinations) : to_airport_code(p.destinations[k]) = None
    THEN None
    ELSE Some([p EXCEPT !.origin_city = Head(to_airport_code(p.origin_city)),
                        !.destinations = [k \in 1..Len(p.destinations) |->
                                             Head(to_airport_code(p.destinations[k]))]])

\* FlightFinderAgent._leg_dates: the outbound date of each destination leg
leg_dates(p) ==
    LET num_cities == Max(1, Len(p.destinations))
        base == Max(1, p.num_days \div num_cities)
        remainder == p.num_days % num_cities
        step(i) == base + (IF i - 1 < remainder THEN 1 ELSE 0)
    IN  [k \in 1..num_cities |->
            p.start_date + SumSeq([i \in 1..(k - 1) |-> step(i)])]

\* The searches FlightFinderAgent.run makes, in its order: one per
\* destination, and the return to the origin for a multi-city trip.
searched_legs(fp) ==
    LET n == Len(fp.destinations)
        from(k) == IF k = 1 THEN fp.origin_city ELSE fp.destinations[k - 1]
        outbound == [k \in 1..n |->
                        [origin |-> from(k),
                         destination |-> fp.destinations[k],
                         depart_date |-> leg_dates(fp)[k]]]
        back == [origin |-> fp.destinations[n],
                 destination |-> fp.origin_city,
                 depart_date |-> fp.end_date]
    IN  IF n > 1 THEN Append(outbound, back) ELSE outbound

\* Sequences of at most n elements of 1..m
UpTo(n, m) == UNION {[1..k -> 1..m] : k \in 0..n}

NonDecreasing(s) == \A i \in 1..(Len(s) - 1) : s[i] <= s[i + 1]

\* The flight lists FlightFinderAgent.run can return are results of the
\* searched legs in search order.  FlightShapes: which leg each of at most n
\* results belongs to.
FlightShapes(p, n) ==
    IF flight_prefs_of(p) = None THEN {<<>>}
    ELSE {s \in UpTo(n, Len(searched_legs(Head(flight_prefs_of(p))))) : NonDecreasing(s)}

\* _parse_section keeps the results priced within the budget
FlightPricings(p, s, Prices) == [1..Len(s) -> {x \in Prices : x <= p.total_budget}]

\* the FlightOption list of shape s with prices pr and departure texts tx
FlightList(p, s, pr, tx) ==
    LET legs == searched_legs(Head(flight_prefs_of(p)))
    IN  [k \in 1..Len(s) |->
            [origin |-> legs[s[k]].origin,
             destination |-> legs[s[k]].destination,
             depart_date |-> legs[s[k]].depart_date,
             price |-> pr[k],
             departure_time |-> tx[k]]]

HotelNames == <<"Hotel A", "Hotel B", "Hotel C", "Hotel D">>

\* The hotel lists HotelFinderAgent.run can return are results per
\* destination in destination order.  HotelShapes: which destination each of
\* at most n results belongs to.
HotelShapes(p, n) ==
    IF flight_prefs_of(p) = None THEN {<<>>}
    ELSE {s \in UpTo(n, Len(p.destinations)) : NonDecreasing(s)}

\* _query_serpapi keeps nightly prices of at most total_budget / num_days
HotelPricings(p, s, Prices) ==
    [1..Len(s) -> {x \in Prices : x * p.num_days <= p.total_budget}]

\* the HotelOption list of shape s with nightly prices pr
HotelList(p, s, pr) ==
    [k \in 1..Len(s) |->
        [name |-> HotelNames[k],
         location |-> p.destinations[s[k]],
         price |-> pr[k]]]

AttractionNames == <<"a1", "a2", "a3", "a4", "a5", "a6", "a7", "a8", "a9">>

\* TravelGuideInfo values TripAdvisorClient.fetch can return
Guides(Fares, Counts) ==
    {[transit_fare |-> f, attractions |-> SubSeq(AttractionNames, 1, c)] :
        f \in {None} \cup {Some(x) : x \in Fares}, c \in Counts}

\* normalized preferences (TravelPreferencesAgent.normalize sets end_date)
PrefsOf(Destinations, Days, Budgets) ==
    {[origin_city |-> "Baku", destinations |-> d, num_days |-> n,
      total_budget |-> b, start_date |-> 1, end_date |-> 1 + n] :
        d \in Destinations, n \in Days, b \in Budgets}

NoItinerary == [origin |-> "", destinations |-> <<>>, days |-> <<>>]

NoBudget == [flights |-> 0, hotels |-> 0, activities |-> 0]

\* BudgetBreakdown.total: a property computed from the three fields
total(b) == b.flights + b.hotels + b.activities

\* nothing derived, planned or selected yet
NothingDoneYet ==
    /\ raw = None
    /\ today = prefs.start_date
    /\ flight_prefs = None
    /\ pc = "prefs"
    /\ ordered_cities = <<>>
    /\ days_per_city = <<>>
    /\ activity_budget_per_day = 0
    /\ city_pos = 0
    /\ day_idx = 0
    /\ current_date = 0
    /\ prev_city = ""
    /\ itinerary_days = <<>>
    /\ itinerary = NoItinerary
    /\ chosen_flights = <<>>
    /\ chosen_hotels = <<>>
    /\ budget = NoBudget
    /\ day_scales = <<>>
    /\ global_scales = <<>>
    /\ draft = <<>>
    /\ cost_writes = <<>>

\* the state before TravelAgent.run derives flight_prefs, with what the
\* finders and guides are going to return
InitWith(P, nf, Prices, Texts, nh, NightlyPrices, G, Served) ==
    /\ prefs \in P
    /\ \E s \in FlightShapes(prefs, nf) :
           \E pr \in FlightPricings(prefs, s, Prices), tx \in [1..Len(s) -> Texts] :
               flights = FlightList(prefs, s, pr, tx)
    /\ \E s \in HotelShapes(prefs, nh) :
           \E pr \in HotelPricings(prefs, s, NightlyPrices) :
               hotels = HotelList(prefs, s, pr)
    /\ \E g \in G : travel_guides = [d \in Range(prefs.destinations) |-> g]
    /\ local_results \in Served
    /\ NothingDoneYet

----------------------------------------------------------------------------
(* ItineraryPlannerAgent.run, one action per step *)

inputs == <<raw, today, prefs, flights, hotels, travel_guides, local_results>>

optimizer_vars == <<chosen_flights, chosen_hotels, budget, global_scales, draft>>

loop_vars == <<city_pos, day_idx, current_date, prev_city, itinerary_days>>

\* TravelAgent.run lines 36-40: the airport-code copy of the preferences;
\* to_airport_code raising ValueError ends the run
DeriveFlightPrefs ==
    /\ pc = "prefs"
    /\ IF flight_prefs_of(prefs) = None
       THEN /\ pc' = "ValueError"
            /\ UNCHANGED flight_prefs
       ELSE /\ flight_prefs' = flight_prefs_of(prefs)
            /\ pc' = "start"
    /\ UNCHANGED <<inputs, ordered_cities, days_per_city, activity_budget_per_day,
                   loop_vars, itinerary, day_scales, cost_writes, optimizer_vars>>

\* line 38
BuildCityRoute ==
    /\ pc = "start"
    /\ ordered_cities' = build_city_route(prefs, flights)
    /\ pc' = "allocate"
    /\ UNCHANGED <<inputs, flight_prefs, days_per_city, activity_budget_per_day,
                   loop_vars, itinerary, day_scales, cost_writes, optimizer_vars>>

\* line 39; with an empty route `total_days // len(cities)` raises
\* ZeroDivisionError and run ends without an itinerary
AllocateDays ==
    /\ pc = "allocate"
    /\ IF ordered_cities = <<>>
       THEN /\ pc' = "ZeroDivisionError"
            /\ UNCHANGED days_per_city
       ELSE /\ days_per_city' = allocate_days(prefs.num_days, ordered_cities)
            /\ pc' = "estimate"
    /\ UNCHANGED <<inputs, flight_prefs, ordered_cities, activity_budget_per_day,
                   loop_vars, itinerary, day_scales, cost_writes, optimizer_vars>>

\* lines 40-46
EstimateActivityBudget ==
    /\ pc = "estimate"
    /\ activity_budget_per_day' =
           estimate_activity_budget(prefs, flights, hotels, days_per_city)
    /\ current_date' = prefs.start_date
    /\ itinerary_days' = <<>>
    /\ prev_city' = prefs.origin_city
    /\ city_pos' = 1
    /\ day_idx' = 0
    /\ pc' = "assemble"
    /\ UNCHANGED <<inputs, flight_prefs, ordered_cities, days_per_city, itinerary,
                   day_scales, cost_writes, optimizer_vars>>

\* assemble_activities with the transport and check-in entries on every day
\* of the city
assemble_activities_every_day(p, fl, ho, guides, served, dpc, envelope, prev, city, idx, ups) ==
    LET leg == find_leg(prev, city, fl)
        arrival == IF leg # None
                   THEN <<Activity("Airport/ground transfer", "",
                                   ground_transfer_cost(envelope))>>
                   ELSE <<Activity("Intercity transport", "",
                                   intercity_transport_cost(envelope))>>
        hotel_name == choose_hotel_name(city, ho)
        checkin == IF hotel_name # ""
                   THEN <<Activity("Hotel check-in", hotel_name, 0)>>
                   ELSE <<>>
        guide == IF city \in DOMAIN guides THEN Some(guides[city]) ELSE None
    IN  arrival \o checkin
        \o activities_for_city(p, city, envelope, idx, dpc[city], guide, served, ups)

\* the Activity list of lines 51-98, before fitting
assemble_activities(p, fl, ho, guides, served, dpc, envelope, prev, city, idx, ups) ==
    LET leg == find_leg(prev, city, fl)
        arrival == IF leg # None
                   THEN <<Activity("Airport/ground transfer", "",
                                   ground_transfer_cost(envelope))>>
                   ELSE <<Activity("Intercity transport", "",
                                   intercity_transport_cost(envelope))>>
        hotel_name == choose_hotel_name(city, ho)
        checkin == IF hotel_name # ""
                   THEN <<Activity("Hotel check-in", hotel_name, 0)>>
                   ELSE <<>>
        guide == IF city \in DOMAIN guides THEN Some(guides[city]) ELSE None
    IN  (IF idx = 0 THEN arrival \o checkin ELSE <<>>)
        \o activities_for_city(p, city, envelope, idx, dpc[city], guide, served, ups)

\* the transport text of lines 57-70: None, the flight's labels, or the
\* generic placeholder
transport_of(fl, prev, city, idx) ==
    LET leg == find_leg(prev, city, fl)
    IN  IF idx # 0 THEN None
        ELSE IF leg # None
        THEN Some(<<"flight", label_city(Head(leg).origin),
                    label_city(Head(leg).destination)>>)
        ELSE Some(<<"ground", label_city(city), "">>)

\* one iteration of the inner loop, lines 50-109
AssembleDay ==
    /\ pc = "assemble"
    /\ city_pos <= Len(ordered_cities)
    /\ day_idx < days_per_city[ordered_cities[city_pos]]
    /\ \E ups_est \in SUBSET slot_ties(prefs, activity_budget_per_day) :
       LET city == ordered_cities[city_pos]
           assembled == assemble_activities(prefs, flights, hotels, travel_guides,
                            local_results, days_per_city, activity_budget_per_day,
                            prev_city, city, day_idx, ups_est)
           scale == fit_scale(assembled, activity_budget_per_day)
       IN  \E ups_fit \in SUBSET fit_ties(prefs, assembled, activity_budget_per_day) :
       LET activities == fit_to_budget(prefs, assembled, activity_budget_per_day,
                                       ups_fit)
       IN  /\ itinerary_days' = Append(itinerary_days,
                  [date |-> current_date,
                   city |-> label_city(city),
                   activities |-> activities,
                   transport |-> transport_of(flights, prev_city, city, day_idx)])
           /\ day_scales' = IF scale = None THEN day_scales
                            ELSE Append(day_scales, Head(scale))
           /\ cost_writes' = Append(cost_writes,
                  fit_writes(prefs, assembled, activity_budget_per_day))
    /\ current_date' = current_date + 1
    /\ day_idx' = day_idx + 1
    /\ UNCHANGED <<inputs, flight_prefs, pc, ordered_cities, days_per_city,
                   activity_budget_per_day, city_pos, prev_city, itinerary,
                   optimizer_vars>>

\* NextCity with the date advanced once more between two cities
NextCitySkippingADate ==
    /\ pc = "assemble"
    /\ city_pos <= Len(ordered_cities)
    /\ day_idx >= days_per_city[ordered_cities[city_pos]]
    /\ prev_city' = ordered_cities[city_pos]
    /\ city_pos' = city_pos + 1
    /\ day_idx' = 0
    /\ current_date' = current_date + 1
    /\ UNCHANGED <<inputs, flight_prefs, pc, ordered_cities, days_per_city,
                   activity_budget_per_day, itinerary_days,
                   itinerary, day_scales, cost_writes, optimizer_vars>>

\* the inner loop is exhausted: line 111 and the next city
NextCity ==
    /\ pc = "assemble"
    /\ city_pos <= Len(ordered_cities)
    /\ day_idx >= days_per_city[ordered_cities[city_pos]]
    /\ prev_city' = ordered_cities[city_pos]
    /\ city_pos' = city_pos + 1
    /\ day_idx' = 0
    /\ UNCHANGED <<inputs, flight_prefs, pc, ordered_cities, days_per_city,
                   activity_budget_per_day, current_date, itinerary_days,
                   itinerary, day_scales, cost_writes, optimizer_vars>>

\* lines 113-117 with every day fitted once more before it is returned
PlannerReturnRefitting ==
    /\ pc = "assemble"
    /\ city_pos > Len(ordered_cities)
    /\ LET refitted == [d \in 1..Len(itinerary_days) |->
                           [itinerary_days[d] EXCEPT !.activities =
                               fit_to_budget(prefs, @, activity_budget_per_day, {})]]
       IN  /\ itinerary' = [origin |-> label_city(prefs.origin_city),
                            destinations |-> [k \in 1..Len(ordered_cities) |->
                                                 label_city(ordered_cities[k])],
                            days |-> refitted]
           /\ draft' = refitted
    /\ cost_writes' = [d \in 1..Len(cost_writes) |->
                          [a \in 1..Len(cost_writes[d]) |->
                              cost_writes[d][a] \o
                              fit_writes(prefs, itinerary_days[d].activities,
                                         activity_budget_per_day)[a]]]
    /\ pc' = "flights"
    /\ UNCHANGED <<inputs, flight_prefs, ordered_cities, days_per_city,
                   activity_budget_per_day, loop_vars, day_scales,
                   chosen_flights, chosen_hotels, budget, global_scales>>

\* lines 113-117
PlannerReturn ==
    /\ pc = "assemble"
    /\ city_pos > Len(ordered_cities)
    /\ itinerary' = [origin |-> label_city(prefs.origin_city),
                     destinations |-> [k \in 1..Len(ordered_cities) |->
                                          label_city(ordered_cities[k])],
                     days |-> itinerary_days]
    /\ draft' = itinerary_days
    /\ pc' = "flights"
    /\ UNCHANGED <<inputs, flight_prefs, ordered_cities, days_per_city,
                   activity_budget_per_day, loop_vars, day_scales, cost_writes,
                   chosen_flights, chosen_hotels, budget, global_scales>>

----------------------------------------------------------------------------
(* BudgetOptimizerAgent.run, one action per block *)

planner_vars == <<ordered_cities, days_per_city, activity_budget_per_day,
                  loop_vars, day_scales, draft>>

\* lines 32-65 with flights.sort(key=...) in place of sorted(flights, key=...)
SelectFlightsSortingInPlace ==
    /\ pc = "flights"
    /\ chosen_flights' = select_flights(prefs, flights, itinerary)
    /\ flights' = [k \in 1..Len(flights) |-> flights[flights_sorted(flights)[k]]]
    /\ pc' = "hotels"
    /\ UNCHANGED <<raw, today, prefs, hotels, travel_guides, local_results,
                   flight_prefs, planner_vars, itinerary, chosen_hotels, budget,
                   global_scales, cost_writes>>

\* lines 32-65
SelectFlights ==
    /\ pc = "flights"
    /\ chosen_flights' = select_flights(prefs, flights, itinerary)
    /\ pc' = "hotels"
    /\ UNCHANGED <<inputs, flight_prefs, planner_vars, itinerary, chosen_hotels, budget,
                   global_scales, cost_writes>>

\* lines 67-94
SelectHotels ==
    /\ pc = "hotels"
    /\ chosen_hotels' = select_hotels(prefs, hotels, nights_per_city(itinerary.days),
                                      flight_cost_of(flights, chosen_flights))
    /\ pc' = "reconcile"
    /\ UNCHANGED <<inputs, flight_prefs, planner_vars, itinerary, chosen_flights, budget,
                   global_scales, cost_writes>>

\* Reconcile without the recomputation of lines 113-117: the breakdown keeps
\* the activity total found before rescaling
ReconcileStaleActivities ==
    /\ pc = "reconcile"
    /\ LET flight_cost == flight_cost_of(flights, chosen_flights)
           hotel_cost == hotel_cost_of(hotels, nights_per_city(itinerary.days),
                                       chosen_hotels)
           scale == global_scale(prefs, flight_cost, hotel_cost,
                                 activities_cost_of(itinerary.days))
           ties == IF scale = None THEN {}
                   ELSE scale_ties(prefs, itinerary.days, Head(scale))
       IN  \E ups \in SUBSET ties :
       LET days == IF scale = None THEN itinerary.days
                   ELSE scale_activity_costs(prefs, itinerary.days, Head(scale), ups)
       IN  /\ itinerary' = [itinerary EXCEPT !.days = days]
           /\ global_scales' = IF scale = None THEN global_scales
                               ELSE Append(global_scales, Head(scale))
           /\ cost_writes' = IF scale = None THEN cost_writes
                             ELSE [d \in 1..Len(cost_writes) |->
                                      [a \in 1..Len(cost_writes[d]) |->
                                          Append(cost_writes[d][a], "global")]]
           /\ budget' = [flights |-> Units(prefs, flight_cost),
                         hotels |-> Units(prefs, hotel_cost),
                         activities |-> activities_cost_of(itinerary.days)]
    /\ pc' = "done"
    /\ UNCHANGED <<inputs, flight_prefs, planner_vars, chosen_flights, chosen_hotels>>

\* lines 96-126
Reconcile ==
    /\ pc = "reconcile"
    /\ LET flight_cost == flight_cost_of(flights, chosen_flights)
           hotel_cost == hotel_cost_of(hotels, nights_per_city(itinerary.days),
                                       chosen_hotels)
           scale == global_scale(prefs, flight_cost, hotel_cost,
                                 activities_cost_of(itinerary.days))
           ties == IF scale = None THEN {}
                   ELSE scale_ties(prefs, itinerary.days, Head(scale))
       IN  \E ups \in SUBSET ties :
       LET days == IF scale = None THEN itinerary.days
                   ELSE scale_activity_costs(prefs, itinerary.days, Head(scale), ups)
       IN  /\ itinerary' = [itinerary EXCEPT !.days = days]
           /\ global_scales' = IF scale = None THEN global_scales
                               ELSE Append(global_scales, Head(scale))
           /\ cost_writes' = IF scale = None THEN cost_writes
                             ELSE [d \in 1..Len(cost_writes) |->
                                      [a \in 1..Len(cost_writes[d]) |->
                                          Append(cost_writes[d][a], "global")]]
           /\ budget' = [flights |-> Units(prefs, flight_cost),
                         hotels |-> Units(prefs, hotel_cost),
                         activities |-> activities_cost_of(days)]
    /\ pc' = "done"
    /\ UNCHANGED <<inputs, flight_prefs, planner_vars, chosen_flights, chosen_hotels>>

Next ==
    \/ DeriveFlightPrefs
    \/ BuildCityRoute
    \/ AllocateDays
    \/ EstimateActivityBudget
    \/ AssembleDay
    \/ NextCity
    \/ PlannerReturn
    \/ SelectFlights
    \/ SelectHotels
    \/ Reconcile

----------------------------------------------------------------------------
(* Specifications *)

Budgets == {700, 6000}

FlightPrices == {2000, 3000}

HotelPrices == {500, 1500}

Fares == {1000}

\* Trips of one or two cities with their flights, hotels and guides, and the
\* trip whose only declared destination is the origin
Init ==
    InitWith(PrefsOf({<<"Istanbul">>, <<"Istanbul", "Tbilisi">>, <<"Baku">>},
                     1..MaxDays, Budgets),
             MaxFlights, FlightPrices, {"Unknown"},
             MaxHotels, HotelPrices,
             Guides(Fares, {0, MaxAttractions}), {<<>>})

Spec == Init /\ [][Next]_vars

\* Long trips over up to three cities, named by city or by airport code
InitLongTrip ==
    InitWith(PrefsOf({<<"Istanbul">>, <<"Istanbul", "Tbilisi">>, <<"TBS", "Istanbul">>,
                      <<"Istanbul", "Ankara", "Tbilisi">>},
                     1..MaxLongTrip, {700}),
             1, {500}, {"Unknown"},
             1, {100},
             Guides(Fares, {0, MaxAttractions}), {<<>>})

SpecLongTrip == InitLongTrip /\ [][Next]_vars

\* Many discovered flights with every kind of departure-time text
InitFlightSearch ==
    InitWith(PrefsOf({<<"Istanbul">>, <<"Istanbul", "Tbilisi">>},
                     {2}, {6000}),
             MaxFlightResults, FlightPrices,
             {"07:30", "2026-03-05 07:30", "2100-01-01 07:30", "Unknown"},
             0, {},
             Guides({}, {0}), {<<>>})

SpecFlightSearch == InitFlightSearch /\ [][Next]_vars

\* A budget of 5.00 against flights of 2.00 and 3.00 and hotels of 0.75 and
\* 1.00 a night
InitEnvelope ==
    InitWith(PrefsOf({<<"Istanbul">>, <<"Istanbul", "Tbilisi">>},
                     1..MaxEnvelopeDays, {500}),
             MaxFlights, {200, 300}, {"Unknown"},
             MaxHotels, {75, 100},
             Guides({}, {MaxAttractions}), {<<>>})

SpecEnvelope == InitEnvelope /\ [][Next]_vars

\* the legs the flights of InitRoute fly
RouteLegs ==
    << [origin |-> "GYD", destination |-> "IST"],
       [origin |-> "IST", destination |-> "TBS"],
       [origin |-> "TBS", destination |-> "ESB"],
       [origin |-> "ESB", destination |-> "GYD"] >>

\* Flight lists in any order of legs and departure dates (the planner takes
\* whatever list it is handed), for declared destinations that name the
\* origin or name a city twice
InitRoute ==
    /\ prefs \in PrefsOf({<<"Istanbul", "Tbilisi">>, <<"Tbilisi", "Baku", "TBS">>},
                          {3}, {6000})
    /\ \E s \in UpTo(MaxRouteFlights, Len(RouteLegs)) :
           \E dt \in [1..Len(s) -> {1, 2}] :
               flights = [k \in 1..Len(s) |->
                             [origin |-> RouteLegs[s[k]].origin,
                              destination |-> RouteLegs[s[k]].destination,
                              depart_date |-> dt[k],
                              price |-> 500,
                              departure_time |-> "Unknown"]]
    /\ hotels = <<>>
    /\ \E g \in Guides({}, {MaxAttractions}) :
           travel_guides = [d \in Range(prefs.destinations) |-> g]
    /\ local_results = <<>>
    /\ NothingDoneYet

SpecRoute == InitRoute /\ [][Next]_vars

\* Destinations typed in lower case, with blanks, as a metropolitan code, as
\* an unlisted three-letter code, as an unlisted city and as nothing
InitAirportCode ==
    InitWith(PrefsOf({<<"istanbul">>, <<" Tbilisi ">>, <<"BAK">>, <<"XQZ">>,
                      <<"Atlantis">>, <<"">>, <<"Istanbul", "XQZ">>,
                      <<"Istanbul", "Atlantis">>},
                     1..MaxDays, {6000}),
             MaxFlights, {500}, {"Unknown"},
             MaxHotels, {100},
             Guides(Fares, {MaxAttractions}), {<<>>})

SpecAirportCode == InitAirportCode /\ [][Next]_vars

\* Trips of up to MaxStay days whose guides list 1 to MaxPool attractions
InitAttractions ==
    InitWith(PrefsOf({<<"Istanbul">>, <<"Istanbul", "Tbilisi">>}, 1..MaxStay,
                     {700, 6000}),
             1, {500}, {"Unknown"},
             1, {100},
             Guides(Fares, 1..MaxPool), {<<>>})

SpecAttractions == InitAttractions /\ [][Next]_vars

----------------------------------------------------------------------------
(* TravelPreferencesAgent.normalize, one action per method *)

\* all that normalize does not touch
core_vars == <<flights, hotels, travel_guides, local_results, flight_prefs,
               ordered_cities, days_per_city, activity_budget_per_day, loop_vars,
               itinerary, day_scales, cost_writes, optimizer_vars>>

\* line 21; int() raising ValueError ends the call
FromDict ==
    /\ pc = "raw"
    /\ IF from_dict(Head(raw)) = None
       THEN /\ pc' = "ValueError"
            /\ UNCHANGED prefs
       ELSE /\ prefs' = Head(from_dict(Head(raw)))
            /\ pc' = "built"
    /\ UNCHANGED <<raw, today, core_vars>>

\* lines 25-64
Normalize ==
    /\ pc = "built"
    /\ prefs' = normalize(prefs, today)
    /\ pc' = "normalized"
    /\ UNCHANGED <<raw, today, core_vars>>

NextNormalize ==
    \/ FromDict
    \/ Normalize

\* the dicts handed to normalize: every key absent or with one of a few
\* values (dates are date objects)
RawDicts ==
    [origin_city : {None, Some("Baku"), Some(" Tbilisi ")},
     destinations : {None, Some(<<>>), Some(<<"Istanbul", "Tbilisi">>)},
     num_days : {None, Some(TextValue("4")), Some(TextValue("not_a_number"))}
                    \cup {Some(IntValue(n)) : n \in -2..MaxRawDays},
     num_locations : {None, Some(2)},
     total_budget : {None, Some(-500), Some(0), Some(140000)},
     start_date : {None, Some(Ordinal(24, LeapDay)), Some(Ordinal(25, 4)),
                   Some(Ordinal(26, 1)), Some(Ordinal(26, 3)),
                   Some(Ordinal(27, 1))},
     end_date : {None, Some(Ordinal(26, 4)), Some(Ordinal(27, 3))}]

\* TravelPreferences objects handed to normalize as they are
RawPreferences ==
    [origin_city : {"", "Baku"},
     destinations : {<<>>, <<"Istanbul">>},
     num_days : -2..MaxRawDays,
     num_locations : {1},
     total_budget : {-500, 140000},
     start_date : {None, Some(Ordinal(26, 1)), Some(Ordinal(27, 1))},
     end_date : {None, Some(Ordinal(26, 4))}]

NoPreferences ==
    [origin_city |-> "", destinations |-> <<>>, num_days |-> 0,
     num_locations |-> 0, total_budget |-> 0, start_date |-> None,
     end_date |-> None]

\* a call of normalize on a dict or on a TravelPreferences, on 1 July 2026 (year 26)
InitNormalize ==
    /\ today = Ordinal(26, 3)
    /\ \/ /\ raw \in {Some(d) : d \in RawDicts}
          /\ prefs = NoPreferences
          /\ pc = "raw"
       \/ /\ raw = None
          /\ prefs \in RawPreferences
          /\ pc = "built"
    /\ flights = <<>>
    /\ hotels = <<>>
    /\ travel_guides = <<>>
    /\ local_results = <<>>
    /\ flight_prefs = None
    /\ ordered_cities = <<>>
    /\ days_per_city = <<>>
    /\ activity_budget_per_day = 0
    /\ city_pos = 0
    /\ day_idx = 0
    /\ current_date = 0
    /\ prev_city = ""
    /\ itinerary_days = <<>>
    /\ itinerary = NoItinerary
    /\ chosen_flights = <<>>
    /\ chosen_hotels = <<>>
    /\ budget = NoBudget
    /\ day_scales = <<>>
    /\ global_scales = <<>>
    /\ draft = <<>>
    /\ cost_writes = <<>>

SpecNormalize == InitNormalize /\ [][NextNormalize]_vars

----------------------------------------------------------------------------
(* Properties *)

Planned == pc \in {"flights", "hotels", "reconcile", "done"}

FlightsChosen == pc \in {"hotels", "reconcile", "done"}

HotelsChosen == pc \in {"reconcile", "done"}

\* sum of the positive costs of a day's activities, in units
PaidTotal(activities) ==
    SumSeq([i \in 1..Len(activities) |->
              IF activities[i].est_cost > 0 THEN activities[i].est_cost ELSE 0])

\* f sorts before g in the (price, departure time, raw text) order, or they
\* tie and f was discovered no later
SortsFirst(i, j) ==
    \/ flight_key_less(flights[i], flights[j])
    \/ (~flight_key_less(flights[j], flights[i]) /\ i <= j)

\* C1: when the optimizer has returned, flights + hotels + activities of the
\* BudgetBreakdown do not exceed prefs.total_budget.
TotalSpendWithinBudget ==
    pc = "done" =>
        budget.flights + budget.hotels + budget.activities
            <= Units(prefs, prefs.total_budget)

\* the legs origin -> city1 -> ... -> cityN -> origin of the realized route
RequiredLegs ==
    LET home == label_city(prefs.origin_city)
        route == itinerary.destinations
        n == Len(route)
    IN  [k \in 1..(n + 1) |->
            <<IF k = 1 THEN home ELSE route[k - 1],
              IF k = n + 1 THEN home ELSE route[k]>>]

\* the discovered flights whose normalized labels are those of the leg
Matching(leg) ==
    {i \in 1..Len(flights) :
        /\ label_city(flights[i].origin) = leg[1]
        /\ label_city(flights[i].destination) = leg[2]}

\* C2: in multi-city mode the selected flights are, for each required leg in
\* leg order that has a matching discovered flight, the matching flight that
\* is least under (price, departure time with unparsable last, raw text),
\* ties to the earliest discovered; legs without a match contribute nothing
\* and no flight of another origin/destination pair is selected.
MultiCityFlightsArePerLegMinima ==
    (FlightsChosen /\ Len(prefs.destinations) > 1) =>
        LET served == SelectSeq(RequiredLegs, LAMBDA leg : Matching(leg) # {})
            best(leg) == CHOOSE i \in Matching(leg) :
                             \A j \in Matching(leg) : SortsFirst(i, j)
        IN  /\ chosen_flights = [k \in 1..Len(served) |-> best(served[k])]
            /\ \A k \in 1..Len(chosen_flights) :
                   \E leg \in Range(RequiredLegs) : chosen_flights[k] \in Matching(leg)

\* a multi-city selection with a leg left out and a leg whose selected
\* flight was discovered after a dearer one of the same leg
MultiCityFlightsWitness ==
    /\ pc = "hotels"
    /\ Len(prefs.destinations) > 1
    /\ \E leg \in Range(RequiredLegs) : Matching(leg) = {}
    /\ \E k \in 1..Len(chosen_flights) :
           \E i \in 1..Len(flights) :
               /\ i < chosen_flights[k]
               /\ flight_key_less(flights[chosen_flights[k]], flights[i])
               /\ flights[i].origin = flights[chosen_flights[k]].origin
               /\ flights[i].destination = flights[chosen_flights[k]].destination

\* the discovered flights priced at or below 45% of the budget
Affordable == {i \in 1..Len(flights) : flights[i].price * 100 <= prefs.total_budget * 45}

\* C3: in single-destination mode at most one flight is selected: the first
\* of the sorted list priced at or below 45% of total_budget, else the
\* cheapest discovered flight, and nothing when no flight was discovered.
SingleDestinationFlightChoice ==
    (FlightsChosen /\ Len(prefs.destinations) = 1) =>
        LET pool == IF Affordable # {} THEN Affordable ELSE 1..Len(flights)
        IN  /\ Len(chosen_flights) <= 1
            /\ flights = <<>> => chosen_flights = <<>>
            /\ flights # <<>> =>
                   /\ Len(chosen_flights) = 1
                   /\ chosen_flights[1] \in pool
                   /\ \A j \in pool : SortsFirst(chosen_flights[1], j)

\* a single-destination trip whose flights are all above the threshold
SingleDestinationFlightWitness ==
    /\ pc = "hotels"
    /\ Len(prefs.destinations) = 1
    /\ Len(flights) >= 2
    /\ Affordable = {}
    /\ chosen_flights = <<2>>

\* nights of a city in the itinerary
NightsOf(c) == Cardinality({d \in 1..Len(itinerary.days) : itinerary.days[d].city = c})

\* the budget left after the selected flights, in cents
AfterFlights ==
    Max(0, prefs.total_budget
           - SumSeq([k \in 1..Len(chosen_flights) |-> flights[chosen_flights[k]].price]))

\* nightly_price x nights <= AfterFlights x nights / total nights
FitsShare(i, c) ==
    hotels[i].price * NightsOf(c) * Len(itinerary.days) <= AfterFlights * NightsOf(c)

HotelsIn(c) == {i \in 1..Len(hotels) : label_city(hotels[i].location) = c}

\* C4: the budget left after the flights is split over the cities by nights;
\* every city with a discovered hotel gets exactly one hotel of that city,
\* the cheapest that fits the city's share or, if none fits, the cheapest of
\* the city; a city without discovered hotel is absent from the map.
HotelPerCityIsCheapestFitting ==
    HotelsChosen =>
        /\ DOMAIN chosen_hotels = {label_city(hotels[i].location) : i \in 1..Len(hotels)}
        /\ \A c \in DOMAIN chosen_hotels :
               LET fitting == {i \in HotelsIn(c) : FitsShare(i, c)}
                   pool == IF fitting # {} THEN fitting ELSE HotelsIn(c)
               IN  /\ chosen_hotels[c] \in pool
                   /\ \A j \in pool : hotels[chosen_hotels[c]].price <= hotels[j].price

\* one city falls back to a hotel above its share while another city gets a
\* hotel that fits
HotelPerCityWitness ==
    /\ pc = "reconcile"
    /\ \E c \in DOMAIN chosen_hotels : \A i \in HotelsIn(c) : ~FitsShare(i, c)
    /\ \E c \in DOMAIN chosen_hotels : FitsShare(chosen_hotels[c], c)

Allocated == pc \in {"estimate", "assemble"} \/ Planned

\* C5: the day counts sum to total_days; the first (total_days mod N)
\* cities of the route get (total_days div N) + 1 days, the others
\* (total_days div N).
DaysAllocatedInRouteOrder ==
    Allocated =>
        LET N == Len(ordered_cities)
            base == prefs.num_days \div N
            remainder == prefs.num_days % N
        IN  /\ DOMAIN days_per_city = Range(ordered_cities)
            /\ SumSeq([i \in 1..N |-> days_per_city[ordered_cities[i]]]) = prefs.num_days
            /\ \A i \in 1..N :
                   days_per_city[ordered_cities[i]] =
                       IF i <= remainder THEN base + 1 ELSE base

\* 7 days over three cities: 3, 2, 2
DaysAllocatedWitness ==
    /\ pc = "estimate"
    /\ prefs.num_days = 7
    /\ ordered_cities = <<"Istanbul", "Ankara", "Tbilisi">>
    /\ days_per_city["Istanbul"] = 3
    /\ days_per_city["Ankara"] = 2
    /\ days_per_city["Tbilisi"] = 2

\* C6: for every assembled and fitted day, the sum of its positive activity
\* costs does not exceed the per-day envelope.
FittedDayWithinEnvelope ==
    \A d \in 1..Len(itinerary_days) :
        PaidTotal(itinerary_days[d].activities) <= activity_budget_per_day

\* C7: fitting an already fitted day again with the same envelope leaves
\* every cost as it is (fitting twice is fitting once).
FittingTwiceIsFittingOnce ==
    \A d \in 1..Len(itinerary_days) :
        \E ups \in SUBSET fit_ties(prefs, itinerary_days[d].activities,
                                   activity_budget_per_day) :
            fit_to_budget(prefs, itinerary_days[d].activities,
                          activity_budget_per_day, ups)
                = itinerary_days[d].activities

\* total spend as the optimizer finds it before reconciling, in units
SpendBeforeReconcile ==
    Units(prefs, SumSeq([k \in 1..Len(chosen_flights) |-> flights[chosen_flights[k]].price]))
    + Units(prefs, SumOver(DOMAIN chosen_hotels,
               [c \in DOMAIN chosen_hotels |->
                   hotels[chosen_hotels[c]].price * Max(1, NightsOf(c))]))
    + activities_cost_of(draft)

\* C8: every factor multiplied into activity costs, by the day-level fit or
\* by the reconciliation, lies in [0, 1]; and when the factor is 1 or total
\* spend is within the budget, the optimizer changes no activity cost.
ScaleFactorsWithinUnitInterval ==
    /\ \A s \in Range(day_scales) \cup Range(global_scales) :
           s[2] > 0 /\ 0 <= s[1] /\ s[1] <= s[2]
    /\ pc = "done" =>
           /\ SpendBeforeReconcile <= Units(prefs, prefs.total_budget)
                  => itinerary.days = draft
           /\ (\A s \in Range(global_scales) : s[1] = s[2]) => itinerary.days = draft

\* a run in which a day was fitted and the reconciliation rescaled as well
ScaleFactorsWitness ==
    /\ pc = "done"
    /\ day_scales # <<>>
    /\ global_scales # <<>>
    /\ itinerary.days # draft

\* C9: the returned itinerary has exactly num_days days and its k-th day is
\* dated start_date + k (k from 0): consecutive days, no gap or repeat at a
\* city boundary.
DatesAreConsecutive ==
    Planned =>
        /\ Len(itinerary.days) = prefs.num_days
        /\ \A k \in 1..Len(itinerary.days) :
               itinerary.days[k].date = prefs.start_date + (k - 1)

\* an itinerary over three cities, so with two city boundaries
DatesWitness ==
    /\ pc = "flights"
    /\ Len(itinerary.days) >= 5
    /\ Cardinality({itinerary.days[k].city : k \in 1..Len(itinerary.days)}) = 3

\* C10: every city of Itinerary.destinations is the city of at least one day.
EveryDestinationHasADay ==
    Planned =>
        \A c \in Range(itinerary.destinations) :
            \E k \in 1..Len(itinerary.days) : itinerary.days[k].city = c

\* sum of est_cost over every activity of every day of the itinerary, in units
ItineraryCost ==
    SumSeq([d \in 1..Len(itinerary.days) |->
              LET acts == itinerary.days[d].activities
              IN  SumSeq([a \in 1..Len(acts) |-> acts[a].est_cost])])

\* C11: the returned BudgetBreakdown holds the final totals: flights is the
\* sum of the selected flights' prices, hotels the sum over the selected
\* hotels of nightly price x max(1, nights in the city), activities the sum
\* of est_cost over the itinerary as it stands after reconciliation, and
\* total is the sum of the three fields.
BudgetBuiltFromFinalTotals ==
    pc = "done" =>
        /\ budget.flights =
               Units(prefs, SumSeq([k \in 1..Len(chosen_flights) |->
                                      flights[chosen_flights[k]].price]))
        /\ budget.hotels =
               Units(prefs, SumOver(DOMAIN chosen_hotels,
                   [c \in DOMAIN chosen_hotels |->
                       hotels[chosen_hotels[c]].price * Max(1, NightsOf(c))]))
        /\ budget.activities = ItineraryCost
        /\ total(budget) = budget.flights + budget.hotels + ItineraryCost

\* a run with selected flights and hotels whose activity costs were rescaled
\* by the reconciliation
BudgetBuiltWitness ==
    /\ pc = "done"
    /\ chosen_flights # <<>>
    /\ DOMAIN chosen_hotels # {}
    /\ global_scales # <<>>
    /\ budget.activities > 0
    /\ budget.activities # activities_cost_of(draft)

\* the days built so far, the itinerary and the planner's draft
AllDays == itinerary_days \o itinerary.days \o draft

\* C12: est_cost is >= 0 for every activity at every point of the pipeline:
\* as assembled and fitted (floor clamp included) and after the global
\* reconciliation.
CostsNeverNegative ==
    \A d \in 1..Len(AllDays) :
        \A a \in 1..Len(AllDays[d].activities) :
            AllDays[d].activities[a].est_cost >= 0

\* a returned itinerary with a day whose last activity was zeroed by the
\* floor clamp and whose fitted positive costs the reconciliation rescaled
CostsNeverNegativeWitness ==
    /\ pc = "done"
    /\ activity_budget_per_day < Units(prefs, 500)
    /\ \E d \in 1..Len(itinerary.days) :
           LET acts == itinerary.days[d].activities
           IN  /\ acts # <<>>
               /\ acts[Len(acts)].est_cost = 0
               /\ draft[d].activities[Len(acts)].est_cost = 0
               /\ cost_writes[d][Len(acts)] = <<"fit", "global">>
               /\ \E a \in 1..Len(acts) :
                      /\ draft[d].activities[a].est_cost > 0
                      /\ cost_writes[d][a] = <<"fit", "global">>

Estimated == pc = "assemble" \/ Planned

\* C13: the per-day envelope is max(0, total_budget - cheapest_flight -
\* hotel_floor) / max(1, total_days), with cheapest_flight the least price
\* of the discovered flights (0 if none) and hotel_floor the sum over the
\* route cities of the least nightly price in the city (0 if none) times
\* max(1, nights in the city); it is 0 when the remainder is <= 0 and never
\* negative.
EnvelopeIsRemainderPerDay ==
    Estimated =>
        LET cheapest_flight ==
                IF flights = <<>> THEN 0
                ELSE CHOOSE x \in {flights[i].price : i \in 1..Len(flights)} :
                         \A i \in 1..Len(flights) : x <= flights[i].price
            least_price(c) ==
                IF HotelsIn(c) = {} THEN 0
                ELSE CHOOSE x \in {hotels[i].price : i \in HotelsIn(c)} :
                         \A i \in HotelsIn(c) : x <= hotels[i].price
            hotel_floor ==
                SumSeq([k \in 1..Len(ordered_cities) |->
                          least_price(ordered_cities[k])
                              * Max(1, days_per_city[ordered_cities[k]])])
            remainder == prefs.total_budget - cheapest_flight - hotel_floor
            total_days ==
                Max(1, SumSeq([k \in 1..Len(ordered_cities) |->
                                 days_per_city[ordered_cities[k]]]))
        IN  /\ activity_budget_per_day >= 0
            /\ activity_budget_per_day * total_days = Units(prefs, Max(0, remainder))
            /\ remainder <= 0 => activity_budget_per_day = 0

\* budget 5.00, cheapest flight 2.00 discovered after a dearer one, hotel
\* floor 1.50 (two nights at 0.75), 4 days: the envelope is 0.375 a day
EnvelopeWitness ==
    /\ pc = "assemble"
    /\ prefs.total_budget = 500
    /\ prefs.num_days = 4
    /\ Len(flights) = 2 /\ flights[1].price = 300 /\ flights[2].price = 200
    /\ ordered_cities = <<"Istanbul", "Tbilisi">>
    /\ Len(hotels) = 2
    /\ hotels[1].price = 100 /\ hotels[2].price = 75
    /\ HotelsIn("Istanbul") = {1, 2}
    /\ 2 * activity_budget_per_day = Units(prefs, 75)

Routed == pc \in {"allocate", "ZeroDivisionError"} \/ Allocated

\* the non-origin city labels the discovered flights arrive at
FlightCities ==
    {label_city(flights[i].destination) : i \in 1..Len(flights)}
        \ {label_city(prefs.origin_city)}

\* the earliest-dated flight to the city, the first discovered among equals
FirstFlight(c) ==
    CHOOSE i \in 1..Len(flights) :
        /\ label_city(flights[i].destination) = c
        /\ \A j \in 1..Len(flights) :
               label_city(flights[j].destination) = c =>
                   \/ flights[i].depart_date < flights[j].depart_date
                   \/ (flights[i].depart_date = flights[j].depart_date /\ i <= j)

\* the flight-derived city c comes before the flight-derived city e
FliesEarlier(c, e) ==
    LET i == FirstFlight(c)
        j == FirstFlight(e)
    IN  \/ flights[i].depart_date < flights[j].depart_date
        \/ (flights[i].depart_date = flights[j].depart_date /\ i < j)

Position(c) == CHOOSE k \in 1..Len(ordered_cities) : ordered_cities[k] = c

\* C14: the route never contains the origin label nor a city twice, and the
\* cities taken from flights appear in ascending order of the departure date
\* of their first flight, equal dates in discovery order.
RouteDeduplicatedInDateOrder ==
    Routed =>
        /\ label_city(prefs.origin_city) \notin Range(ordered_cities)
        /\ \A i, j \in 1..Len(ordered_cities) :
               ordered_cities[i] = ordered_cities[j] => i = j
        /\ FlightCities \subseteq Range(ordered_cities)
        /\ \A c, e \in FlightCities :
               FliesEarlier(c, e) => Position(c) < Position(e)

\* two flight cities routed against their discovery order because of their
\* dates, two routed in discovery order on equal dates, and a flight to the
\* origin
RouteWitness ==
    /\ pc = "allocate"
    /\ \E i, j \in 1..Len(flights) :
           /\ i < j
           /\ flights[i].depart_date > flights[j].depart_date
           /\ {label_city(flights[i].destination), label_city(flights[j].destination)}
                  \subseteq FlightCities
           /\ Position(label_city(flights[j].destination))
                  < Position(label_city(flights[i].destination))
    /\ \E i, j \in 1..Len(flights) :
           /\ i < j
           /\ flights[i].depart_date = flights[j].depart_date
           /\ {label_city(flights[i].destination), label_city(flights[j].destination)}
                  \subseteq FlightCities
           /\ Position(label_city(flights[i].destination))
                  < Position(label_city(flights[j].destination))

\* the declared destination labels other than the origin
DeclaredCities ==
    {label_city(prefs.destinations[k]) : k \in 1..Len(prefs.destinations)}
        \ {label_city(prefs.origin_city)}

FirstDeclared(c) ==
    CHOOSE k \in 1..Len(prefs.destinations) :
        /\ label_city(prefs.destinations[k]) = c
        /\ \A m \in 1..(k - 1) : label_city(prefs.destinations[m]) # c

NoAttractions ==
    /\ local_results = <<>>
    /\ \A d \in DOMAIN travel_guides : travel_guides[d].attractions = <<>>

\* C16: the core never fails on empty external data: with no flights, no
\* hotels and/or no attractions the planner and the optimizer complete
\* without raising; no flight is selected for a leg without discovered
\* flight; a city without discovered hotel gets no check-in activity and is
\* absent from the selected-hotel map.
EmptyDataNeverFails ==
    /\ (flights = <<>> \/ hotels = <<>> \/ NoAttractions) => pc # "ZeroDivisionError"
    /\ FlightsChosen =>
           \A leg \in Range(RequiredLegs) :
               Matching(leg) = {} =>
                   \A k \in 1..Len(chosen_flights) :
                       <<label_city(flights[chosen_flights[k]].origin),
                         label_city(flights[chosen_flights[k]].destination)>> # leg
    /\ \A d \in 1..Len(AllDays) :
           HotelsIn(AllDays[d].city) = {} =>
               \A a \in 1..Len(AllDays[d].activities) :
                   AllDays[d].activities[a].name # "Hotel check-in"
    /\ HotelsChosen =>
           \A c \in DOMAIN chosen_hotels : HotelsIn(c) # {}

\* C17: no division or modulo by zero occurs in planner or optimizer for a
\* pre-validated input (num_days >= 1, total_budget >= 0, non-empty
\* destination list).
NoDivisionByZero ==
    (prefs.num_days >= 1 /\ prefs.total_budget >= 0 /\ prefs.destinations # <<>>)
        => pc # "ZeroDivisionError"

\* C18: no planner or optimizer step changes the preferences, a field of a
\* discovered flight or hotel, or the order or content of the discovered
\* flight and hotel lists.
DiscoveredInputsNeverChange ==
    [][prefs' = prefs /\ flights' = flights /\ hotels' = hotels]_vars

\* a finished run over flights discovered in another order than the
\* optimizer's sort order, with a flight and a hotel selected
DiscoveredInputsWitness ==
    /\ pc = "done"
    /\ Len(flights) >= 2
    /\ flights_sorted(flights) # [k \in 1..Len(flights) |-> k]
    /\ chosen_flights # <<>>
    /\ DOMAIN chosen_hotels # {}

\* days with every est_cost blanked: all that is not an activity cost
WithoutCosts(days) ==
    [d \in 1..Len(days) |->
        [days[d] EXCEPT !.activities =
            [a \in 1..Len(days[d].activities) |->
                [days[d].activities[a] EXCEPT !.est_cost = 0]]]]

\* a step after assembly changes nothing of the days and the itinerary but
\* activity costs, and changes a cost only in the global pass that records it
OnlyCostsChange ==
    /\ SubSeq(itinerary_days', 1, Len(itinerary_days)) = itinerary_days
    /\ itinerary.days # <<>> =>
           /\ itinerary'.origin = itinerary.origin
           /\ itinerary'.destinations = itinerary.destinations
           /\ WithoutCosts(itinerary'.days) = WithoutCosts(itinerary.days)
           /\ \A d \in 1..Len(itinerary.days) :
                  \A a \in 1..Len(itinerary.days[d].activities) :
                      itinerary'.days[d].activities[a].est_cost
                              # itinerary.days[d].activities[a].est_cost
                          => cost_writes'[d][a] = Append(cost_writes[d][a], "global")

KnownAirportCodes ==
    {CITY_TO_AIRPORT[c] : c \in DOMAIN CITY_TO_AIRPORT}
        \cup {IATA_ALIASES[a] : a \in DOMAIN IATA_ALIASES}

\* C20: a city or airport label that does not resolve in the alias tables is
\* always reported as an error and never passed through: to_airport_code
\* returns a value only when the input resolves to a known airport code, so
\* the derived flight preferences hold known airport codes only.
UnresolvableLabelRaises ==
    flight_prefs # None =>
        /\ Head(flight_prefs).origin_city \in KnownAirportCodes
        /\ \A k \in 1..Len(Head(flight_prefs).destinations) :
               Head(flight_prefs).destinations[k] \in KnownAirportCodes

\* normalize has returned
Normalized == pc = "normalized"

\* C21: for every input normalize accepts, the returned preferences satisfy
\* the interface handed to the core: destinations is non-empty,
\* num_days >= 1, total_budget >= 0, start_date is set and end_date is later
\* than start_date.
NormalizedPrefsSatisfyInterface ==
    Normalized =>
        /\ prefs.destinations # <<>>
        /\ prefs.num_days >= 1
        /\ prefs.total_budget >= 0
        /\ prefs.start_date # None
        /\ prefs.end_date # None
        /\ Head(prefs.end_date) > Head(prefs.start_date)

\* the dict given to normalize carries a num_days that is not a number
NumDaysIsNotANumber ==
    /\ raw # None
    /\ Head(raw).num_days # None
    /\ Head(Head(raw).num_days).text \notin {None, Some("")}
    /\ int_of_text[Head(Head(Head(raw).num_days).text)] = None

\* C23: when the preferences dict carries a num_days value that is not a
\* number, normalization does not fail: it falls back to the default trip
\* length and returns valid preferences.
InvalidNumDaysFallsBackToDefault ==
    NumDaysIsNotANumber =>
        /\ pc # "ValueError"
        /\ Normalized =>
               /\ prefs.num_days = 3
               /\ prefs.destinations # <<>>
               /\ prefs.start_date # None
               /\ prefs.end_date # None

\* normalize has returned the preferences of a dict
NormalizedDict == Normalized /\ raw # None

\* the dict's value under a key, after _from_dict's conversion to the
\* field's type
Given == Head(from_dict(Head(raw)))

\* every missing field has a default, and a missing end date is the start
\* date plus the trip length
DefaultsFilled ==
    /\ prefs.origin_city # ""
    /\ prefs.destinations # <<>>
    /\ prefs.start_date # None
    /\ Head(raw).origin_city = None => prefs.origin_city = "GYD"
    /\ Head(raw).destinations = None => prefs.destinations = <<"IST">>
    /\ Head(raw).num_days = None => prefs.num_days = 3
    /\ Head(raw).total_budget = None => prefs.total_budget = 50000
    /\ Head(raw).start_date = None => prefs.start_date = Some(today + 10)
    /\ Head(raw).end_date = None =>
           prefs.end_date = Some(Head(prefs.start_date) + prefs.num_days)

TransportNames == {"Airport/ground transfer", "Intercity transport"}

\* day d of the days is the first day of its city
FirstDayOfCity(days, d) == d = 1 \/ days[d - 1].city # days[d].city

\* the city the traveller comes from on day d
CityBefore(days, d) ==
    IF d = 1 THEN label_city(prefs.origin_city) ELSE days[d - 1].city

\* the discovered flights from one city label to another
FlightsBetween(from, to) ==
    {i \in 1..Len(flights) : /\ label_city(flights[i].origin) = from
                             /\ label_city(flights[i].destination) = to}

\* the first discovered hotel of the city at the city's lowest price
CheapestHotelIn(c) ==
    CHOOSE i \in HotelsIn(c) :
        \A j \in HotelsIn(c) :
            \/ hotels[i].price < hotels[j].price
            \/ (hotels[i].price = hotels[j].price /\ i <= j)

TransportAndCheckInIn(days) ==
    \A d \in 1..Len(days) :
        LET acts == days[d].activities
            city == days[d].city
        IN  /\ \A a \in 1..Len(acts) :
                   acts[a].name \in TransportNames \cup {"Hotel check-in"} =>
                       /\ FirstDayOfCity(days, d)
                       /\ acts[a].est_cost = 0
                       /\ acts[a].name \in TransportNames <=> a = 1
            /\ FirstDayOfCity(days, d) =>
                   /\ acts # <<>>
                   /\ acts[1].name \in TransportNames
                   /\ acts[1].name = "Airport/ground transfer"
                          <=> FlightsBetween(CityBefore(days, d), city) # {}
                   /\ (Len(acts) >= 2 /\ acts[2].name = "Hotel check-in")
                          <=> HotelsIn(city) # {}
                   /\ HotelsIn(city) # {} =>
                          acts[2].item = hotels[CheapestHotelIn(city)].name
            /\ ~FirstDayOfCity(days, d) => days[d].transport = None

\* C24: transport and check-in entries appear only on the first day of a
\* city: that day starts with exactly one transport activity (for the
\* discovered flight from the previous route city, or the generic intercity
\* placeholder if none matches), followed by a check-in activity naming the
\* cheapest discovered hotel of the city iff the city has a hotel; both have
\* cost 0 when created and still have cost 0 in the final itinerary.
TransportAndCheckInOnFirstDayOnly ==
    /\ TransportAndCheckInIn(itinerary_days)
    /\ TransportAndCheckInIn(draft)
    /\ TransportAndCheckInIn(itinerary.days)

\* a finished, globally rescaled itinerary with a flight arrival and a
\* check-in on a first day, a ground arrival on another, and a later day in
\* a city
TransportAndCheckInWitness ==
    /\ pc = "done"
    /\ global_scales # <<>>
    /\ \E d, e, f \in 1..Len(itinerary.days) :
           /\ FirstDayOfCity(itinerary.days, d)
           /\ itinerary.days[d].activities[1].name = "Airport/ground transfer"
           /\ Len(itinerary.days[d].activities) > 2
           /\ itinerary.days[d].activities[2].name = "Hotel check-in"
           /\ FirstDayOfCity(itinerary.days, e)
           /\ itinerary.days[e].activities[1].name = "Intercity transport"
           /\ ~FirstDayOfCity(itinerary.days, f)
           /\ itinerary.days[f].activities # <<>>

\* the attraction pool of the city is not empty
PoolNotEmpty(city) ==
    \/ city \in DOMAIN travel_guides /\ travel_guides[city].attractions # <<>>
    \/ local_results # <<>>

\* C25: for a day whose attraction pool is non-empty the assembler fills the
\* four time slots Morning, Afternoon, Evening and Late with pre-fit costs of
\* 32%, 28%, 22% and 18% of the day's envelope, repeating an item of the
\* 3-item window for the slot the window does not fill, so that the slot
\* costs add up to the whole envelope before fitting (here: to the cent, on
\* the days the fit left untouched).
FourSlotsShareTheEnvelope ==
    \A d \in 1..Len(itinerary_days) :
        PoolNotEmpty(itinerary_days[d].city) =>
            LET acts == itinerary_days[d].activities
                first == Len(acts) - Len(Slots)
            IN  /\ first >= 0
                /\ \A k \in 1..Len(Slots) : acts[first + k].name = Slots[k].label
                /\ acts[first + 4].item = acts[first + 1].item
                /\ (\A a \in 1..Len(acts) : cost_writes[d][a] = <<>>) =>
                       LET spent == SumSeq([k \in 1..Len(Slots) |->
                                               acts[first + k].est_cost])
                       IN  /\ spent >= activity_budget_per_day - Units(prefs, 2)
                           /\ spent <= activity_budget_per_day + Units(prefs, 2)

\* the items of the 3-item window of an assembled day
Window(d) ==
    {itinerary_days[d].activities[a].item :
        a \in {b \in 1..Len(itinerary_days[d].activities) :
                  \E k \in 1..Len(Slots) :
                      itinerary_days[d].activities[b].name = Slots[k].label}}

\* days d and d + 1 are spent in the same city
SameCityNextDay(d) ==
    /\ d + 1 <= Len(itinerary_days)
    /\ itinerary_days[d].city = itinerary_days[d + 1].city

\* the number of point-of-interest records the city's pool holds
PoolOf(city) == Len(travel_guides[city].attractions)

LowEnvelopeDayEndsWithFreeItem ==
    \A d \in 1..Len(itinerary_days) :
        LET acts == itinerary_days[d].activities
        IN  (acts # <<>> /\ activity_budget_per_day < Units(prefs, 500)) =>
                /\ acts[Len(acts)].est_cost = 0
                /\ \E a \in 1..Len(acts) : acts[a].est_cost = 0

\* C28: in single-destination mode the 45%-of-budget threshold never changes
\* the outcome: for every non-empty flight list and every budget the
\* selected flight is the first of the list sorted by (price, departure
\* time, raw text), the flight that would be selected with no threshold.
ThresholdNeverChangesTheFlight ==
    (FlightsChosen /\ Len(prefs.destinations) = 1 /\ flights # <<>>) =>
        /\ Len(chosen_flights) = 1
        /\ \A j \in 1..Len(flights) : SortsFirst(chosen_flights[1], j)
        /\ chosen_flights[1] = flights_sorted(flights)[1]

\* a single-destination trip with flights on both sides of the threshold,
\* the selected one not the first discovered
ThresholdWitness ==
    /\ pc = "done"
    /\ Len(prefs.destinations) = 1
    /\ Affordable # {}
    /\ Affordable # 1..Len(flights)
    /\ chosen_flights # <<>>
    /\ chosen_flights[1] # 1

\* the city labels of the declared destinations
DeclaredLabels ==
    {label_city(prefs.destinations[k]) : k \in 1..Len(prefs.destinations)}

\* C29: the hotel selected for a city never depends on the budget or on the
\* city's share: for every declared destination with at least one discovered
\* hotel the selected hotel is the first hotel in discovery order with the
\* minimum nightly price in that city, whether or not it fits the share.
HotelChoiceIgnoresTheBudget ==
    HotelsChosen =>
        \A c \in DeclaredLabels :
            HotelsIn(c) # {} =>
                /\ c \in DOMAIN chosen_hotels
                /\ chosen_hotels[c] = CheapestHotelIn(c)

\* a finished trip with a city whose cheapest hotel was discovered second and
\* does not fit the city's share
HotelChoiceWitness ==
    /\ pc = "done"
    /\ \E c \in DOMAIN chosen_hotels :
           /\ chosen_hotels[c] = 2
           /\ 1 \in HotelsIn(c)
           /\ hotels[1].price > hotels[2].price
           /\ ~FitsShare(2, c)

\* the selected flights and hotels alone reach the budget while the planner's
\* activities cost something
NothingLeftForActivities ==
    /\ pc = "done"
    /\ budget.flights + budget.hotels >= Units(prefs, prefs.total_budget)
    /\ activities_cost_of(draft) > 0

\* C30: when the cost of the selected flights plus selected hotels is already
\* >= total_budget and the itinerary's activity cost is positive, global
\* reconciliation sets est_cost of every activity on every day to 0 and the
\* returned BudgetBreakdown has activities = 0.
ActivitiesZeroedWhenNothingIsLeft ==
    NothingLeftForActivities =>
        /\ \A d \in 1..Len(itinerary.days) :
               \A a \in 1..Len(itinerary.days[d].activities) :
                   itinerary.days[d].activities[a].est_cost = 0
        /\ budget.activities = 0

\* flights and hotels reach the budget, and activities that cost something on
\* two days of the draft are zeroed
ActivitiesZeroedWitness ==
    /\ NothingLeftForActivities
    /\ Len(draft) >= 2
    /\ \A d \in 1..Len(draft) : activities_cost_of(<<draft[d]>>) > 0
    /\ activities_cost_of(itinerary.days) = 0
    /\ global_scales # <<>>

====
